---- MODULE Spec2Model ----
(***************************************************************************)
(* copilot-usage: resolution of the plan and of the request limit from the *)
(* command line and the environment, the one-shot presenters, and the      *)
(* i3bar mode that relays i3status' output with a usage element put in     *)
(* front of every frame (src/main.go).  The Bun/TypeScript variant of the  *)
(* tool (src/unnamed/part_000) is modelled next to the Go one; the state   *)
(* variable "variant" says which of the two programs runs.                 *)
(*                                                                         *)
(* Text is modelled as sequences: a numeric argument is a sequence of      *)
(* one-character strings, a line of the i3bar protocol is a sequence of    *)
(* tokens (white space, ',', '[', ']', null, a JSON object with its        *)
(* key/value pairs in the order they are written, or text that is no       *)
(* JSON).  Time is in whole seconds of the monotonic clock.                *)
(***************************************************************************)
EXTENDS Integers, Sequences, FiniteSets, TLC

VARIABLES
    variant,     \* "go" (src/main.go) or "ts" (src/unnamed/part_000)
    args,        \* the command line: plan, limit (given or not, its text), flags
    env,         \* GH_COPILOT_PLAN and GH_COPILOT_LIMIT
    pc,          \* where the process is
    plan,        \* main's plan
    limit,       \* main's limit
    username,    \* result of getUsername
    stdout,      \* the lines written to standard output, in order
    stderr,      \* the messages written to standard error, in order
    exitCode,    \* Running, or the process's exit status
    calls,       \* how often the gh tool was run: [user |-> n, usage |-> n]
    remaining,   \* lines i3status will still write before it closes its output
    i3status,    \* the lines read from i3status so far, as they were written
    first,       \* runI3BarMode's first
    lastFetch,   \* runI3BarMode's lastFetch
    cachedItem,  \* runI3BarMode's cachedItem
    clock,       \* seconds on the monotonic clock since the process started
    frames,      \* per content line read: when it arrived (at), whether it made a
                 \* fetch and when that fetch was over (done), which line it was
                 \* (src), the login fetchUsage is called with (user)
    sample,      \* arguments drawn for a function of the presenters, applied alone
    shown        \* what that function returned for them

vars == <<variant, args, env, pc, plan, limit, username, stdout, stderr, exitCode,
          calls, remaining, i3status, first, lastFetch, cachedItem, clock, frames,
          sample, shown>>

(***************************************************************************)
(* Bounds of the model.                                                    *)
(***************************************************************************)
\* most lines i3status writes in a run
MaxLines == 3
\* most lines i3status writes in the runs that explore every configuration
MaxCfgLines == 1
\* most lines i3status writes in the runs checked for termination
MaxLiveLines == 2

(***************************************************************************)
(* Program constants.                                                      *)
(***************************************************************************)
plans ==
    ("free" :> 50) @@ ("pro" :> 300) @@ ("pro+" :> 1500) @@
    ("business" :> 300) @@ ("enterprise" :> 1000)

PLANS ==
    ("free" :> 50) @@ ("pro" :> 300) @@ ("pro+" :> 1500) @@
    ("business" :> 300) @@ ("enterprise" :> 1000)

FallbackLimit == 1500
DefaultPlan == "pro+"
RefreshSeconds == 60
BarCells == 10
Running == -1
\* time.Time{}: no instant the clock ever shows
ZeroTime == -1
\* a nil map
NilItem == << >>
\* the lower-case names every JavaScript object inherits
ObjectPrototypeKeys == {"constructor", "__proto__"}
\* a limit that is no number (the function Object, the object Object.prototype):
\* limit > 0 is false of it
NotANumber == -1

(***************************************************************************)
(* Numeric text.                                                           *)
(***************************************************************************)
Digits == <<"0", "1", "2", "3", "4", "5", "6", "7", "8", "9">>

IsDigit(c) == \E i \in 1..Len(Digits) : Digits[i] = c

DigitVal(c) == (CHOOSE i \in 1..Len(Digits) : Digits[i] = c) - 1

AllDigits(s, base) ==
    /\ s # << >>
    /\ \A i \in 1..Len(s) : IsDigit(s[i]) /\ DigitVal(s[i]) < base

RECURSIVE ParseUint(_, _, _)
ParseUint(s, base, acc) ==
    IF s = << >> THEN acc
    ELSE ParseUint(Tail(s), base, acc * base + DigitVal(Head(s)))

NoInt == [ok |-> FALSE, val |-> 0]

SignedDigits(s, base) ==
    LET signed == s # << >> /\ Head(s) \in {"+", "-"}
        body   == IF signed THEN Tail(s) ELSE s
        mag    == ParseUint(body, base, 0)
    IN  IF AllDigits(body, base)
        THEN [ok |-> TRUE, val |-> IF s[1] = "-" THEN 0 - mag ELSE mag]
        ELSE NoInt

\* strconv.Atoi: an optional sign and decimal digits, nothing else
Atoi(s) == SignedDigits(s, 10)

\* the flag package's Int value: strconv.ParseInt(s, 0, 64); a leading 0
\* followed by more digits selects base 8
FlagInt(s) ==
    LET signed == s # << >> /\ Head(s) \in {"+", "-"}
        sign   == IF signed THEN <<Head(s)>> ELSE << >>
        body   == IF signed THEN Tail(s) ELSE s
    IN  IF Len(body) > 1 /\ Head(body) = "0"
        THEN SignedDigits(sign \o Tail(body), 8)
        ELSE SignedDigits(s, 10)

RECURSIVE DigitPrefix(_)
DigitPrefix(s) ==
    IF s = << >> \/ ~IsDigit(Head(s)) THEN << >>
    ELSE <<Head(s)>> \o DigitPrefix(Tail(s))

RECURSIVE SkipSpace(_)
SkipSpace(s) == IF s # << >> /\ Head(s) = " " THEN SkipSpace(Tail(s)) ELSE s

\* JavaScript's parseInt(s, 10): leading white space, an optional sign, then
\* the longest run of digits; NaN (ok = FALSE) when there is no digit
parseInt(s) ==
    LET t      == SkipSpace(s)
        signed == t # << >> /\ Head(t) \in {"+", "-"}
        body   == DigitPrefix(IF signed THEN Tail(t) ELSE t)
        mag    == ParseUint(body, 10, 0)
    IN  IF body = << >> THEN NoInt
        ELSE [ok |-> TRUE, val |-> IF t[1] = "-" THEN 0 - mag ELSE mag]

\* String.prototype.toLowerCase on the plan names of the model
toLowerCase(s) ==
    CASE s = "PRO" -> "pro"
      [] s = "FREE" -> "free"
      [] OTHER -> s

(***************************************************************************)
(* Plan and limit resolution.                                              *)
(***************************************************************************)
\* Go: getPlan
getPlan(cliPlan, envPlan) ==
    IF cliPlan # "" THEN cliPlan
    ELSE IF envPlan # "" /\ envPlan \in DOMAIN plans THEN envPlan
    ELSE DefaultPlan

\* Go: getLimit
getLimit(cliLimit, p, envLimit) ==
    IF cliLimit > 0 THEN cliLimit
    ELSE IF envLimit # << >> /\ Atoi(envLimit).ok /\ Atoi(envLimit).val > 0
         THEN Atoi(envLimit).val
    ELSE IF p \in DOMAIN plans THEN plans[p]
    ELSE FallbackLimit

\* PLANS[name] in JavaScript: an own property of the table, or else a property
\* inherited from Object.prototype, which is no number; found stands for a
\* truthy result
PlansLookup(name) ==
    IF name \in DOMAIN PLANS THEN [found |-> TRUE, val |-> PLANS[name]]
    ELSE IF name \in ObjectPrototypeKeys THEN [found |-> TRUE, val |-> NotANumber]
    ELSE [found |-> FALSE, val |-> 0]

\* TypeScript: getPlan; cliPlan = "" stands for undefined
TS_getPlan(cliPlan, envPlan) ==
    IF cliPlan # "" THEN cliPlan
    ELSE IF toLowerCase(envPlan) # "" /\ PlansLookup(toLowerCase(envPlan)).found
         THEN toLowerCase(envPlan)
    ELSE DefaultPlan

\* TypeScript: getLimit; cliLimit = NoInt stands for undefined
TS_getLimit(cliLimit, p, envLimit) ==
    IF cliLimit.ok THEN cliLimit.val
    ELSE IF envLimit # << >> /\ parseInt(envLimit).ok /\ parseInt(envLimit).val > 0
         THEN parseInt(envLimit).val
    ELSE IF PlansLookup(p).found THEN PlansLookup(p).val
    ELSE FallbackLimit

(***************************************************************************)
(* float64 arithmetic.  GrossQuantity, used and percentage are float64 in  *)
(* Go and number in TypeScript: every sum, quotient and product is rounded *)
(* to 53 significant bits, to nearest, ties to even.  A value >= 0 is kept *)
(* as its 53-bit significand m and the exponent of its last bit:           *)
(* value = m * 2^exp; zero has the empty significand.  Natural numbers of  *)
(* any size are sequences of 15-bit limbs, most significant first, without *)
(* leading 0.  Values here are far from the overflow and underflow limits  *)
(* of float64, which are left out.                                         *)
(***************************************************************************)
MantissaBits == 53
LimbBits == 15
Radix == 2 ^ LimbBits

Zeros(n) == [i \in 1..n |-> 0]

RECURSIVE StripZeros(_)
StripZeros(b) == IF b # << >> /\ Head(b) = 0 THEN StripZeros(Tail(b)) ELSE b

RECURSIVE Limbs(_)
Limbs(n) == IF n = 0 THEN << >> ELSE Append(Limbs(n \div Radix), n % Radix)

\* the number a limb sequence stands for (used below 2^31 only)
RECURSIVE LimbsNat(_)
LimbsNat(b) ==
    IF b = << >> THEN 0 ELSE Radix * LimbsNat(SubSeq(b, 1, Len(b) - 1)) + b[Len(b)]

BitLen(b) ==
    IF b = << >> THEN 0
    ELSE LimbBits * (Len(b) - 1)
            + (CHOOSE k \in 1..LimbBits : 2 ^ (k - 1) <= Head(b) /\ Head(b) < 2 ^ k)

IsOdd(b) == b # << >> /\ b[Len(b)] % 2 = 1

\* limbs i..1 (from the right) of a + b + c, a and b of the same length
RECURSIVE AddCarry(_, _, _, _)
AddCarry(a, b, i, c) ==
    IF i = 0 THEN Limbs(c)
    ELSE LET t == a[i] + b[i] + c
         IN  Append(AddCarry(a, b, i - 1, t \div Radix), t % Radix)

AddLimbs(a, b) ==
    LET n == IF Len(a) > Len(b) THEN Len(a) ELSE Len(b)
    IN  StripZeros(AddCarry(Zeros(n - Len(a)) \o a, Zeros(n - Len(b)) \o b, n, 0))

\* b * k + c for k < 2^15, from the right
RECURSIVE MulCarry(_, _, _, _)
MulCarry(b, k, i, c) ==
    IF i = 0 THEN Limbs(c)
    ELSE LET t == b[i] * k + c
         IN  Append(MulCarry(b, k, i - 1, t \div Radix), t % Radix)

MulLimbs(b, k) == StripZeros(MulCarry(b, k, Len(b), 0))

\* long division of b by d < 2^15, from the left: quotient and remainder
RECURSIVE DivFrom(_, _, _, _)
DivFrom(b, d, i, r) ==
    IF i > Len(b) THEN [q |-> << >>, r |-> r]
    ELSE LET t == r * Radix + b[i]
             rest == DivFrom(b, d, i + 1, t % d)
         IN  [q |-> <<t \div d>> \o rest.q, r |-> rest.r]

\* b * 2^s
ShiftLeft(b, s) ==
    IF b = << >> THEN << >>
    ELSE MulLimbs(b, 2 ^ (s % LimbBits)) \o Zeros(s \div LimbBits)

\* b \div 2^s, and whether a 1 was shifted out
ShiftRight(b, s) ==
    LET w == s \div LimbBits
    IN  IF w >= Len(b) THEN [q |-> << >>, lost |-> b # << >>]
        ELSE LET qr == DivFrom(SubSeq(b, 1, Len(b) - w), 2 ^ (s % LimbBits), 1, 0)
             IN  [q |-> StripZeros(qr.q),
                  lost |-> qr.r # 0 \/ \E i \in (Len(b) - w + 1)..Len(b) : b[i] # 0]

RECURSIVE LessLimbs(_, _, _)
LessLimbs(a, b, i) ==
    IF i > Len(a) THEN FALSE
    ELSE IF a[i] # b[i] THEN a[i] < b[i]
    ELSE LessLimbs(a, b, i + 1)

F64Zero == [m |-> << >>, exp |-> 0]

\* a number cut after its 54th bit (a.q, a.lost) is rounded up when that bit
\* is 1 and more follows, or the kept part is odd
F64RoundUp(a, keep, sticky) == IsOdd(a.q) /\ (a.lost \/ sticky \/ IsOdd(keep))

\* a significand that rounding carried to 54 bits loses its last bit, a 0
F64Carry(k, e) ==
    IF BitLen(k) > MantissaBits THEN [m |-> ShiftRight(k, 1).q, exp |-> e + 1]
    ELSE [m |-> k, exp |-> e]

F64Pick(a, keep, sticky, e) ==
    F64Carry(IF F64RoundUp(a, keep, sticky) THEN AddLimbs(keep, <<1>>) ELSE keep, e)

\* b of s bits more than the significand holds (s <= 0: fewer), times 2^e
F64Shift(b, s, e, sticky) ==
    IF s <= 0 THEN [m |-> ShiftLeft(b, -s), exp |-> e + s]
    ELSE F64Pick(ShiftRight(b, s - 1), ShiftRight(b, s).q, sticky, e + s)

\* the float64 nearest to b * 2^e (+ something below the last bit of b when
\* sticky), ties to even
F64Round(b, e, sticky) ==
    IF b = << >> THEN F64Zero ELSE F64Shift(b, BitLen(b) - MantissaBits, e, sticky)

\* float64(n) for a natural number n
F64(n) == F64Round(Limbs(n), 0, FALSE)

\* x + y
F64Add(x, y) ==
    IF x = F64Zero THEN y
    ELSE IF y = F64Zero THEN x
    ELSE LET e == IF x.exp < y.exp THEN x.exp ELSE y.exp
         IN  F64Round(AddLimbs(ShiftLeft(x.m, x.exp - e), ShiftLeft(y.m, y.exp - e)), e, FALSE)

\* x * k for a natural number k < 2^15
F64Mul(x, k) ==
    IF x = F64Zero THEN F64Zero ELSE F64Round(MulLimbs(x.m, k), x.exp, FALSE)

\* x / d for a natural number 0 < d < 2^15
F64Div(x, d) ==
    IF x = F64Zero THEN F64Zero
    ELSE LET guard == BitLen(Limbs(d)) + 2
             qr == DivFrom(ShiftLeft(x.m, guard), d, 1, 0)
         IN  F64Round(StripZeros(qr.q), x.exp - guard, qr.r # 0)

\* x < y
F64Less(x, y) ==
    IF y = F64Zero THEN FALSE
    ELSE IF x = F64Zero THEN TRUE
    ELSE IF x.exp # y.exp THEN x.exp < y.exp
    ELSE LessLimbs(x.m, y.m, 1)

\* the integer part: Go's int(x), Math.floor(x)
F64Trunc(x) ==
    IF x.exp >= 0 THEN LimbsNat(ShiftLeft(x.m, x.exp))
    ELSE LimbsNat(ShiftRight(x.m, -x.exp).q)

\* the integer nearest to b * 2^e; a tie goes up, or to the even one
NearestInt(b, e, tieToEven) ==
    IF e >= 0 THEN LimbsNat(ShiftLeft(b, e))
    ELSE LimbsNat(ShiftRight(b, -e).q)
            + (IF F64RoundUp(ShiftRight(b, -e - 1), ShiftRight(b, -e).q, ~tieToEven)
               THEN 1 ELSE 0)

\* x in tenths as fmt's %.1f prints it: the exact value rounded, ties to even
F64Tenths(x) == NearestInt(MulLimbs(x.m, 10), x.exp, TRUE)

\* x in tenths as Number.prototype.toFixed(1) prints it: ties go up
F64ToFixed1(x) == NearestInt(MulLimbs(x.m, 10), x.exp, FALSE)

\* Math.round(x)
F64RoundInt(x) == NearestInt(x.m, x.exp, FALSE)

\* the float64 a JSON number with two decimals parses to: h / 100
Hundredths(h) == F64Div(F64(h), 100)

(***************************************************************************)
(* Usage data and the status element made from it.                         *)
(***************************************************************************)
\* a UsageItem as json.Unmarshal fills it; the quantity is written in
\* hundredths (Item("gpt", 33) is {"model":"gpt","grossQuantity":0.33})
Item(model, hundredths) == [GrossQuantity |-> Hundredths(hundredths), Model |-> model]

\* calculateTotalUsage: total += item.GrossQuantity, item after item
RECURSIVE calculateTotalUsage(_)
calculateTotalUsage(items) ==
    IF items = << >> THEN F64Zero
    ELSE F64Add(calculateTotalUsage(SubSeq(items, 1, Len(items) - 1)),
                items[Len(items)].GrossQuantity)

\* the items of one model, in their order
ItemsOf(items, model) == SelectSeq(items, LAMBDA it : it.Model = model)

\* modelCounts[item.Model] += item.GrossQuantity, item after item
modelCounts(items) ==
    [m \in {items[i].Model : i \in DOMAIN items} |-> calculateTotalUsage(ItemsOf(items, m))]

RECURSIVE Repeat(_, _)
Repeat(s, n) == IF n <= 0 THEN "" ELSE s \o Repeat(s, n - 1)

\* (used / float64(limit)) * 100
Percentage(used, lim) == F64Mul(F64Div(used, lim), 100)

\* the percentage in tenths of a percent, as %.1f prints it
PercentTenths(total, lim) == F64Tenths(Percentage(total, lim))

\* the text of a value given in tenths
Fmt1(tenths) == ToString(tenths \div 10) \o "." \o ToString(tenths % 10)

\* if filled > width { filled = width }
AtMost(filled, width) == IF filled > width THEN width ELSE filled

\* int(percentage / 10), at most 10
BarFilled(total, lim) == AtMost(F64Trunc(F64Div(Percentage(total, lim), 10)), BarCells)

\* strings.Repeat of the full block ("#") and of the light shade (".")
BarText(filled, width) == Repeat("#", filled) \o Repeat(".", width - filled)

\* the element runI3BarMode caches
UsageElement(total, lim) ==
    ("name" :> "copilot") @@
    ("full_text" :> ("Copilot: " \o BarText(BarFilled(total, lim), BarCells) \o " "
                        \o Fmt1(PercentTenths(total, lim)) \o "%")) @@
    ("color" :> "#00FF00")

(***************************************************************************)
(* The presenters: the bar, the per-model table, the JSON document.        *)
(***************************************************************************)
\* Go: drawBar; the bar is given by its numbers of full and of light cells
BarCellsOf(filled, width) == [filled |-> filled, empty |-> width - filled]

drawBar(used, total, width) ==
    BarCellsOf(AtMost(F64Trunc(F64Mul(F64Div(used, total), width)), width), width)

\* the orders in which range may go over the keys of a map
RangeOrders(keys) ==
    {o \in [1..Cardinality(keys) -> keys] : \A k \in keys : \E i \in DOMAIN o : o[i] = k}

\* Go: the rows printBox prints under "Per-model usage:" when range hands out
\* the models in the given order: "%-22s %5d %6.1f%%", zero counts skipped
printBoxRows(items, lim, order) ==
    LET counts == modelCounts(items)
        printed == SelectSeq(order, LAMBDA m : counts[m] # F64Zero)
    IN  [i \in 1..Len(printed) |->
            [model |-> printed[i],
             count |-> counts[printed[i]],
             text |-> <<ToString(F64Trunc(counts[printed[i]])),
                        Fmt1(PercentTenths(counts[printed[i]], lim)) \o "%">>]]

\* TypeScript: item.model || 'Unknown'
TS_model(it) == IF it.Model = "" THEN "Unknown" ELSE it.Model

\* the keys of a Map, in the order of their first set()
RECURSIVE InsertionOrder(_)
InsertionOrder(items) ==
    IF items = << >> THEN << >>
    ELSE LET before == InsertionOrder(SubSeq(items, 1, Len(items) - 1))
             m == TS_model(items[Len(items)])
         IN  IF \E i \in DOMAIN before : before[i] = m THEN before ELSE Append(before, m)

\* TypeScript: aggregateByModel, the entries of the Map in their order
aggregateByModel(items) ==
    LET keys == InsertionOrder(items)
    IN  [i \in DOMAIN keys |->
            [model |-> keys[i],
             count |-> calculateTotalUsage(SelectSeq(items, LAMBDA it : TS_model(it) = keys[i]))]]

\* where a stable sort by (a, b) => b[1] - a[1] puts an entry that came after
\* the ones already sorted: behind every entry that is not smaller
RECURSIVE InsertDescending(_, _)
InsertDescending(sorted, e) ==
    IF sorted = << >> THEN <<e>>
    ELSE IF F64Less(Head(sorted).count, e.count) THEN <<e>> \o sorted
    ELSE <<Head(sorted)>> \o InsertDescending(Tail(sorted), e)

\* Array.prototype.sort((a, b) => b[1] - a[1])
RECURSIVE SortDescending(_)
SortDescending(entries) ==
    IF entries = << >> THEN << >>
    ELSE InsertDescending(SortDescending(SubSeq(entries, 1, Len(entries) - 1)),
                          entries[Len(entries)])

\* TypeScript: formatPercentage
formatPercentage(percentage) ==
    IF F64Trunc(percentage) >= 1000
    THEN Fmt1(F64ToFixed1(F64Div(percentage, 1000))) \o "k%"
    ELSE Fmt1(F64ToFixed1(percentage)) \o "%"

\* TypeScript: the rows main prints under "Per-model usage:"
TS_rows(items, lim) ==
    LET sorted == SortDescending(aggregateByModel(items))
        printed == SelectSeq(sorted, LAMBDA e : e.count # F64Zero)
    IN  [i \in 1..Len(printed) |->
            [model |-> printed[i].model,
             count |-> printed[i].count,
             text |-> <<ToString(F64RoundInt(printed[i].count)),
                        formatPercentage(Percentage(printed[i].count, lim))>>]]

\* the colour by the thresholds of drawBar and of the "Overall" line
TS_color(percentage) ==
    IF F64Trunc(percentage) >= 90 THEN "\\x1b[31m"
    ELSE IF F64Trunc(percentage) >= 75 THEN "\\x1b[33m"
    ELSE "\\x1b[32m"

\* TypeScript: drawBar
\* Math.min(used, total)
TS_min(used, total) == IF F64Less(total, used) THEN total ELSE used

TS_drawBar(used, total, width) ==
    BarCellsOf(F64Trunc(F64Div(F64Mul(TS_min(used, F64(total)), width), total)), width)
        @@ [color |-> TS_color(Percentage(used, total))]

\* the widths of the bars of the two panels: innerWidth-9, innerWidth - 8
BoxBarWidth == (58 - 2) - 9
TS_BarWidth == (60 - 4) - 8

\* Go: the document outputJSON encodes (json puts the models in key order)
outputJSON(lim, used, percentage, items) ==
    [limit |-> lim, used |-> used, percentage |-> Fmt1(F64Tenths(percentage)),
     models |-> modelCounts(items)]

\* Go: the panel printBox prints
printBox(lim, used, percentage, items, order) ==
    [overall |-> <<ToString(F64Trunc(used)), ToString(lim),
                   Fmt1(F64Tenths(percentage)) \o "%">>,
     bar |-> drawBar(used, lim, BoxBarWidth),
     none |-> items = << >>,
     rows |-> printBoxRows(items, lim, order)]

\* TypeScript: the document main prints for --json
TS_json(lim, items) ==
    [limit |-> lim, used |-> calculateTotalUsage(items),
     percentage |-> Fmt1(F64ToFixed1(Percentage(calculateTotalUsage(items), lim))),
     models |-> aggregateByModel(items)]

\* TypeScript: the panel main prints
TS_box(lim, items) ==
    LET used == calculateTotalUsage(items)
    IN  [overall |-> <<ToString(F64RoundInt(used)), ToString(lim),
                       TS_color(Percentage(used, lim)),
                       formatPercentage(Percentage(used, lim))>>,
         bar |-> TS_drawBar(used, lim, TS_BarWidth),
         none |-> items = << >>,
         rows |-> TS_rows(items, lim)]

\* TypeScript: what main prints when limit is no number: every quotient is NaN
TS_nan(items) ==
    [used |-> calculateTotalUsage(items), percentage |-> "NaN",
     models |-> aggregateByModel(items)]

(***************************************************************************)
(* Lines of the i3bar protocol, as token sequences.                        *)
(***************************************************************************)
Tok(t) == [t |-> t, kv |-> << >>]
WS == Tok(" ")
COMMA == Tok(",")
LB == Tok("[")
RB == Tok("]")
NULL == Tok("null")
JUNK == Tok("junk")
\* a JSON object, its pairs <<key, value>> in the order they are written
Obj(kv) == [t |-> "{}", kv |-> kv]

HeaderLine == <<Obj(<< <<"version", "1">> >>)>>
OpenLine == <<LB>>

\* the keys of the model in the order encoding/json sorts them (byte order)
KeyOrder == <<"color", "full_text", "name", "version">>

KeyRank(k) == CHOOSE i \in 1..Len(KeyOrder) : KeyOrder[i] = k

\* strings.TrimSpace
RECURSIVE TrimLeft(_)
TrimLeft(l) == IF l # << >> /\ Head(l) = WS THEN TrimLeft(Tail(l)) ELSE l

RECURSIVE TrimRight(_)
TrimRight(l) ==
    IF l # << >> /\ l[Len(l)] = WS THEN TrimRight(SubSeq(l, 1, Len(l) - 1)) ELSE l

TrimSpace(l) == TrimRight(TrimLeft(l))

\* strings.HasPrefix(line, ",")
HasCommaPrefix(l) == l # << >> /\ Head(l) = COMMA

\* json.Unmarshal of one object into map[string]interface{}: a key written
\* twice keeps its last value
DecodeObject(kv) ==
    [k \in {kv[i][1] : i \in 1..Len(kv)} |->
        kv[CHOOSE i \in 1..Len(kv) :
              /\ kv[i][1] = k
              /\ \A j \in 1..Len(kv) : kv[j][1] = k => j <= i][2]]

DecodeElement(tok) == IF tok = NULL THEN NilItem ELSE DecodeObject(tok.kv)

RECURSIVE SortedKeys(_)
SortedKeys(ks) ==
    IF ks = {} THEN << >>
    ELSE LET k == CHOOSE x \in ks : \A y \in ks : KeyRank(x) <= KeyRank(y)
         IN  <<k>> \o SortedKeys(ks \ {k})

\* json.Marshal of a map: keys sorted, a nil map is null
EncodeElement(m) ==
    IF m = NilItem THEN NULL
    ELSE LET ks == SortedKeys(DOMAIN m)
         IN  Obj([i \in 1..Len(ks) |-> <<ks[i], m[ks[i]]>>])

RECURSIVE DropSpace(_)
DropSpace(l) ==
    IF l = << >> THEN << >>
    ELSE IF Head(l) = WS THEN DropSpace(Tail(l))
    ELSE <<Head(l)>> \o DropSpace(Tail(l))

IsElementTok(tok) == tok.t = "{}" \/ tok = NULL

\* tokens between the brackets: element (, element)*
RECURSIVE ElementList(_)
ElementList(ts) ==
    IF ts = << >> THEN [ok |-> FALSE, items |-> << >>]
    ELSE IF ~IsElementTok(Head(ts)) THEN [ok |-> FALSE, items |-> << >>]
    ELSE IF Len(ts) = 1 THEN [ok |-> TRUE, items |-> <<DecodeElement(Head(ts))>>]
    ELSE IF ts[2] # COMMA THEN [ok |-> FALSE, items |-> << >>]
    ELSE LET rest == ElementList(SubSeq(ts, 3, Len(ts)))
         IN  [ok |-> rest.ok, items |-> <<DecodeElement(Head(ts))>> \o rest.items]

\* json.Unmarshal([]byte(line), &items) with items []map[string]interface{}:
\* ok stands for err == nil
Unmarshal(l) ==
    LET ts == DropSpace(l)
    IN  IF ts = <<NULL>> THEN [ok |-> TRUE, items |-> << >>]
        ELSE IF Len(ts) < 2 \/ Head(ts) # LB \/ ts[Len(ts)] # RB
             THEN [ok |-> FALSE, items |-> << >>]
        ELSE IF Len(ts) = 2 THEN [ok |-> TRUE, items |-> << >>]
        ELSE ElementList(SubSeq(ts, 2, Len(ts) - 1))

RECURSIVE JoinElements(_)
JoinElements(items) ==
    IF items = << >> THEN << >>
    ELSE IF Len(items) = 1 THEN <<EncodeElement(Head(items))>>
    ELSE <<EncodeElement(Head(items)), COMMA>> \o JoinElements(Tail(items))

\* json.Marshal of a []map[string]interface{}
Marshal(items) == <<LB>> \o JoinElements(items) \o <<RB>>

(***************************************************************************)
(* The inputs the model draws from.                                        *)
(***************************************************************************)
CliPlans == {"", "pro", "PRO", "bogus", "constructor"}
EnvPlans == {"", "free", "bogus", "constructor"}
CliLimitTexts == {<<"5", "0", "0">>, <<"0">>, <<"-", "5">>, <<"5", "a">>}
EnvLimitTexts == {<< >>, <<"2", "0", "0">>, <<"0">>, <<"-", "3">>, <<"a", "b", "c">>, <<"2", "x">>}
GoFlagSets == {{}, {"json"}, {"i3bar"}, {"help"}, {"version"}, {"i3bar", "json"}, {"help", "version"}}
TSFlagSets == {{}, {"json"}, {"help"}}

CliArgs(flagSets) ==
    [plan : CliPlans, limitSet : {TRUE}, limit : CliLimitTexts, flags : flagSets]
        \cup [plan : CliPlans, limitSet : {FALSE}, limit : {<< >>}, flags : flagSets]

Environments == [plan : EnvPlans, limit : EnvLimitTexts]

\* every command line and environment of the model, for either program
AllCfgs ==
    [variant : {"go"}, args : CliArgs(GoFlagSets), env : Environments]
        \cup [variant : {"ts"}, args : CliArgs(TSFlagSets), env : Environments]

\* the configurations under which the stream of i3status is explored in full
StreamCfgs ==
    {c \in AllCfgs :
        /\ c.env = [plan |-> "", limit |-> << >>]
        /\ c.args.limit \in {<< >>, <<"5", "0", "0">>, <<"5", "a">>}
        /\ c.args.plan \in {"", "bogus"}
        /\ "i3bar" \in c.args.flags =>
              (c.args.flags = {"i3bar"} /\ c.args.plan = "" /\ c.args.limit = <<"5", "0", "0">>)}

\* what gh answers to the usage request
UsageA == <<Item("gpt", 12000), Item("claude", 3000)>>
UsageB == <<Item("gpt", 120000)>>

FetchOutcomes ==
    {[ok |-> TRUE, err |-> "", items |-> UsageA, secs |-> 0],
     [ok |-> TRUE, err |-> "", items |-> UsageB, secs |-> 2],
     [ok |-> FALSE, err |-> "Error fetching usage:", items |-> << >>, secs |-> 0],
     [ok |-> FALSE, err |-> "Error parsing response:", items |-> << >>, secs |-> 0]}

\* the item lists among these answers
UsageAnswers == {o.items : o \in {r \in FetchOutcomes : r.ok}}

\* the limits the command lines and environments of the model resolve to
ModelLimits ==
    {n \in {plans[p] : p \in DOMAIN plans} \cup {FallbackLimit}
            \cup {FlagInt(t).val : t \in CliLimitTexts}
            \cup {parseInt(t).val : t \in CliLimitTexts \cup EnvLimitTexts}
            \cup {Atoi(t).val : t \in EnvLimitTexts} : n > 0}

\* for each of these answers and limits, what runI3BarMode and the presenters
\* make of them (worked out once, looked up by the actions)
Presented ==
    [a \in UsageAnswers, l \in ModelLimits |->
        LET used == calculateTotalUsage(a)
            percentage == Percentage(used, l)
        IN  [element |-> UsageElement(used, l),
             json |-> outputJSON(l, used, percentage, a),
             box |-> [o \in RangeOrders(DOMAIN modelCounts(a)) |->
                         printBox(l, used, percentage, a, o)],
             tsJson |-> TS_json(l, a),
             tsBox |-> TS_box(l, a)]]

\* seconds a read of i3status' output blocks before a line is there
Deltas == {30, 61}

ElemA == Obj(<< <<"name", "wifi">>, <<"full_text", "W: up">> >>)
ElemB == Obj(<< <<"full_text", "12:00">>, <<"name", "time">>, <<"color", "#FFFFFF">> >>)
ElemC == Obj(<< <<"name", "disk">>, <<"name", "copilot">>, <<"full_text", "42%">> >>)

\* the lines i3status may write
Lines ==
    {HeaderLine, << >>, <<WS, LB, WS>>,
     <<LB, ElemA, RB>>,
     <<COMMA, LB, ElemA, COMMA, ElemB, RB>>,
     <<WS, COMMA, LB, WS, ElemC, COMMA, NULL, RB, WS>>,
     <<COMMA, JUNK, WS>>,
     <<COMMA, COMMA, JUNK>>,
     <<COMMA, HeaderLine[1]>>}

(***************************************************************************)
(* The process.                                                            *)
(***************************************************************************)
Text(t, kv) == [t |-> t, kv |-> kv]

InitOf(cfgs, lineCounts) ==
    /\ \E c \in cfgs : variant = c.variant /\ args = c.args /\ env = c.env
    /\ remaining \in lineCounts
    /\ pc = "start"
    /\ plan = ""
    /\ limit = 0
    /\ username = ""
    /\ stdout = << >>
    /\ stderr = << >>
    /\ exitCode = Running
    /\ calls = [user |-> 0, usage |-> 0]
    /\ i3status = << >>
    /\ first = TRUE
    /\ lastFetch = ZeroTime
    /\ cachedItem = NilItem
    /\ clock = 0
    /\ frames = << >>

\* no function is applied alone while the process runs
NoSample == [kind |-> "none"]
NoShown == [fn |-> "none"]

Init == InitOf(StreamCfgs, 0..MaxLines) /\ sample = NoSample /\ shown = NoShown

InitCfg == InitOf(AllCfgs, {MaxCfgLines}) /\ sample = NoSample /\ shown = NoShown

cfgVars == <<variant, args, env>>
pureVars == <<sample, shown>>
streamVars == <<remaining, i3status, first, lastFetch, cachedItem, clock, frames>>

\* an exit that reports nothing
Exit_Unreported(code, msgs) ==
    /\ pc' = "exited"
    /\ exitCode' = code
    /\ stderr' = stderr

\* os.Exit(code), process.exit(code), or main returning (code 0)
Exit(code, msgs) ==
    /\ pc' = "exited"
    /\ exitCode' = code
    /\ stderr' = stderr \o msgs

\* Go: main up to its first call of gh, runI3BarMode's two Println included
GoMain ==
    /\ pc = "start"
    /\ variant = "go"
    /\ LET limitFlag == IF args.limitSet THEN FlagInt(args.limit) ELSE [ok |-> TRUE, val |-> 0]
           p == getPlan(args.plan, env.plan)
       IN  IF ~limitFlag.ok
           THEN /\ Exit(2, <<"invalid value for flag -limit">>)
                /\ UNCHANGED <<plan, limit, stdout>>
           ELSE IF "version" \in args.flags
           THEN /\ Exit(0, << >>)
                /\ stdout' = <<<<Text("copilot-usage 1.0.0 (Go)", << >>)>>>>
                /\ UNCHANGED <<plan, limit>>
           ELSE IF "help" \in args.flags
           THEN /\ Exit(0, << >>)
                /\ stdout' = <<<<Text("help", << >>)>>>>
                /\ UNCHANGED <<plan, limit>>
           ELSE /\ plan' = p
                /\ limit' = getLimit(limitFlag.val, p, env.limit)
                /\ pc' = "getUsername"
                /\ stdout' = IF "i3bar" \in args.flags THEN <<HeaderLine, OpenLine>> ELSE stdout
                /\ UNCHANGED <<stderr, exitCode>>
    /\ UNCHANGED <<pureVars, cfgVars, username, calls, streamVars>>

\* TypeScript: parseCliArgs, getPlan and getLimit at the head of main
TSMain ==
    /\ pc = "start"
    /\ variant = "ts"
    /\ LET planKey == toLowerCase(args.plan)
           limitGiven == args.limitSet /\ args.limit # << >>
           parsed == parseInt(args.limit)
           p == TS_getPlan(planKey, env.plan)
       IN  IF "help" \in args.flags
           THEN /\ Exit(0, << >>)
                /\ stdout' = <<<<Text("help", << >>)>>>>
                /\ UNCHANGED <<plan, limit>>
           ELSE IF args.plan # "" /\ ~PlansLookup(planKey).found
           THEN /\ Exit(1, <<"Error: Unknown plan", "Valid plans:">>)
                /\ UNCHANGED <<plan, limit, stdout>>
           ELSE IF limitGiven /\ (~parsed.ok \/ parsed.val <= 0)
           THEN /\ Exit(1, <<"Error: --limit must be a positive number">>)
                /\ UNCHANGED <<plan, limit, stdout>>
           ELSE /\ plan' = p
                /\ limit' = TS_getLimit(IF limitGiven THEN parsed ELSE NoInt, p, env.limit)
                /\ pc' = "getUsername"
                /\ UNCHANGED <<stdout, stderr, exitCode>>
    /\ UNCHANGED <<pureVars, cfgVars, username, calls, streamVars>>

\* the login asked for and not kept
getUsername_NotKept ==
    /\ pc = "getUsername"
    /\ calls' = [calls EXCEPT !.user = @ + 1]
    /\ \E ok \in BOOLEAN :
          IF ok
          THEN /\ pc' = IF "i3bar" \in args.flags THEN "launch" ELSE "fetch"
               /\ UNCHANGED <<username, stderr, exitCode>>
          ELSE /\ Exit(1, <<"Error: Could not get username">>)
               /\ UNCHANGED username
    /\ UNCHANGED <<pureVars, cfgVars, plan, limit, stdout, streamVars>>

\* getUsername, in either program: gh api /user -q .login
getUsername ==
    /\ pc = "getUsername"
    /\ calls' = [calls EXCEPT !.user = @ + 1]
    /\ \E ok \in BOOLEAN :
          IF ok
          THEN /\ username' = "octocat"
               /\ pc' = IF "i3bar" \in args.flags THEN "launch" ELSE "fetch"
               /\ UNCHANGED <<stderr, exitCode>>
          ELSE /\ Exit(1, <<"Error: Could not get username">>)
               /\ UNCHANGED username
    /\ UNCHANGED <<pureVars, cfgVars, plan, limit, stdout, streamVars>>

\* what a presenter writes: the JSON document or the panel, with the name, the
\* plan and the figures worked out from the items
Report(kind, items, order) ==
    <<Text(kind, << <<"username", username>>, <<"plan", plan>>,
                    <<"body",
                      IF limit = NotANumber THEN TS_nan(items)
                      ELSE IF variant = "go"
                           THEN IF kind = "json" THEN Presented[items, limit].json
                                ELSE Presented[items, limit].box[order]
                      ELSE IF kind = "json" THEN Presented[items, limit].tsJson
                           ELSE Presented[items, limit].tsBox>> >>)>>

\* fetchUsage and the presenter, outside i3bar mode; range goes over the models
\* in an order of its choice
FetchAndPresent ==
    /\ pc = "fetch"
    /\ calls' = [calls EXCEPT !.usage = @ + 1]
    /\ \E res \in FetchOutcomes :
          IF res.ok
          THEN /\ Exit(0, << >>)
               /\ \E order \in RangeOrders(DOMAIN modelCounts(res.items)) :
                     stdout' = Append(stdout,
                         Report(IF "json" \in args.flags THEN "json" ELSE "box",
                                res.items, order))
          ELSE /\ Exit(1, <<res.err>>)
               /\ UNCHANGED stdout
    /\ UNCHANGED <<pureVars, cfgVars, plan, limit, username, streamVars>>

\* a failed start that is reported and then taken for a normal end
I3Launch_StatusZero ==
    /\ pc = "launch"
    /\ \E ok \in BOOLEAN :
          IF ok
          THEN /\ pc' = "stream"
               /\ UNCHANGED <<stderr, exitCode>>
          ELSE Exit(0, <<"Error starting i3status:">>)
    /\ first' = TRUE
    /\ lastFetch' = ZeroTime
    /\ cachedItem' = NilItem
    /\ UNCHANGED <<pureVars, cfgVars, plan, limit, username, stdout, calls,
                   remaining, i3status, clock, frames>>

\* runI3BarMode: exec.Command, StdoutPipe, Start
I3Launch ==
    /\ pc = "launch"
    /\ \E ok \in BOOLEAN :
          IF ok
          THEN /\ pc' = "stream"
               /\ UNCHANGED <<stderr, exitCode>>
          ELSE Exit(1, <<"Error starting i3status:">>)
    /\ first' = TRUE
    /\ lastFetch' = ZeroTime
    /\ cachedItem' = NilItem
    /\ UNCHANGED <<pureVars, cfgVars, plan, limit, username, stdout, calls,
                   remaining, i3status, clock, frames>>

\* the test for framing lines without the version header
IsFraming_NoHeader(line) == line = << >> \/ line = OpenLine

\* the test for framing lines without the empty line
IsFraming_NoBlank(line) == line = OpenLine \/ line = HeaderLine

\* line == "" || line == `[` || line == `{"version":1}`
IsFraming(line) == line = << >> \/ line = OpenLine \/ line = HeaderLine

\* the refresh test gone: every content line fetches
NeedsFetch_Always(now, lf, item) == TRUE

\* the refresh test without the clock: what is cached is never renewed
NeedsFetch_CacheOnly(now, lf, item) == item = NilItem

\* time.Since(lastFetch) > 60*time.Second || cachedItem == nil
NeedsFetch(now, lf, item) ==
    (lf = ZeroTime \/ now - lf > RefreshSeconds) \/ item = NilItem

\* the cached element appended instead of prepended
Augment_Append(item, line) ==
    LET u == Unmarshal(line)
    IN  IF u.ok THEN Marshal(u.items \o <<item>>) ELSE line

\* the line printed for a content line: with the cached element in front when
\* the line is an array of elements, as it is otherwise
Augment(item, line) ==
    LET u == Unmarshal(line)
    IN  IF u.ok THEN Marshal(<<item>> \o u.items) ELSE line

\* the separator put back as the input line had it
Framed_AsInput(isFirst, isContinuation, text) ==
    IF isContinuation THEN <<COMMA>> \o text ELSE text

\* no separator written at all
Framed_NoSeparator(isFirst, isContinuation, text) == text

\* if first { Println(text) } else { Println("," + text) }
Framed(isFirst, isContinuation, text) ==
    IF isFirst THEN text ELSE <<COMMA>> \o text

\* one turn of runI3BarMode's loop: a line is read and dealt with
I3Line ==
    /\ pc = "stream"
    /\ remaining > 0
    /\ \E raw \in Lines, d \in Deltas, res \in FetchOutcomes :
          LET now == clock + d
              trimmed == TrimSpace(raw)
              isContinuation == HasCommaPrefix(trimmed)
              line == IF isContinuation THEN Tail(trimmed) ELSE trimmed
              fetch == NeedsFetch(now, lastFetch, cachedItem)
              item == IF fetch
                      THEN Presented[res.items, limit].element
                      ELSE cachedItem
              seen == [at |-> now, fetch |-> fetch,
                       done |-> IF fetch THEN now + res.secs ELSE lastFetch,
                       src |-> Len(i3status) + 1,
                       user |-> username]
          IN  /\ remaining' = remaining - 1
              /\ i3status' = Append(i3status, raw)
              /\ IF IsFraming(trimmed)
                 THEN /\ clock' = now
                      /\ UNCHANGED <<pc, stdout, stderr, exitCode, calls,
                                     first, lastFetch, cachedItem, frames>>
                 ELSE IF fetch /\ ~res.ok
                 THEN /\ Exit(1, <<res.err>>)
                      /\ clock' = now + res.secs
                      /\ calls' = [calls EXCEPT !.usage = @ + 1]
                      /\ frames' = Append(frames, seen)
                      /\ UNCHANGED <<stdout, first, lastFetch, cachedItem>>
                 ELSE /\ clock' = IF fetch THEN now + res.secs ELSE now
                      /\ calls' = [calls EXCEPT !.usage = IF fetch THEN @ + 1 ELSE @]
                      /\ lastFetch' = IF fetch THEN now + res.secs ELSE lastFetch
                      /\ cachedItem' = item
                      /\ stdout' = Append(stdout, Framed(first, isContinuation, Augment(item, line)))
                      /\ first' = FALSE
                      /\ frames' = Append(frames, seen)
                      /\ UNCHANGED <<pc, stderr, exitCode>>
    /\ UNCHANGED <<pureVars, cfgVars, plan, limit, username>>

\* the end of the stream taken for a failure
I3EOF_Failure ==
    /\ pc = "stream"
    /\ remaining = 0
    /\ Exit(1, << >>)
    /\ UNCHANGED <<pureVars, cfgVars, plan, limit, username, stdout, calls, streamVars>>

\* scanner.Scan() returns false: the loop ends, cmd.Wait runs, main returns
I3EOF ==
    /\ pc = "stream"
    /\ remaining = 0
    /\ Exit(0, << >>)
    /\ UNCHANGED <<pureVars, cfgVars, plan, limit, username, stdout, calls, streamVars>>

Next ==
    \/ GoMain
    \/ TSMain
    \/ getUsername
    \/ FetchAndPresent
    \/ I3Launch
    \/ I3Line
    \/ I3EOF

Spec == Init /\ [][Next]_vars

SpecCfg == InitCfg /\ [][Next]_vars

\* The process is one thread that runs on: when i3status has closed its output
\* (and exits, as it does with it), Scan returns false and the deferred Wait
\* returns.  Runs of at most MaxLiveLines lines.
InitLive == InitOf(StreamCfgs, 0..MaxLiveLines) /\ sample = NoSample /\ shown = NoShown

SpecLive == InitLive /\ [][Next]_vars /\ WF_vars(I3EOF)

TypeOK ==
    /\ pc \in {"start", "getUsername", "fetch", "launch", "stream", "exited"}
    /\ exitCode \in {Running, 0, 1, 2}
    /\ (pc = "exited") = (exitCode # Running)
    /\ remaining \in 0..(MaxLines + 1)
    /\ first \in BOOLEAN

(***************************************************************************)
(* The functions of the presenters applied alone, to drawn arguments       *)
(* (SpecPure): the process stays at its start.                             *)
(***************************************************************************)
\* most requests used, and the widest bar, among the arguments of the bars
MaxUsed == 48
MaxWidth == 47

\* a whole number of requests used, a limit and a width
BarLimits == {22, 47, 1500}
BarSamples ==
    [kind : {"bar"}, used : (0..MaxUsed) \cup {2000}, total : BarLimits, width : 0..MaxWidth]

\* every order of a list
Perms(s) == {[i \in DOMAIN s |-> s[o[i]]] : o \in RangeOrders(DOMAIN s)}

\* usage items: three small quantities of one model, models with equal sums and
\* one never used, a model without a name next to one named Unknown, no items
ItemLists ==
    Perms(<<Item("gpt", 10), Item("gpt", 20), Item("gpt", 30), Item("claude", 500)>>)
        \cup Perms(<<Item("gpt", 500), Item("claude", 500), Item("o3", 200), Item("idle", 0)>>)
        \cup Perms(<<Item("", 100), Item("Unknown", 200), Item("gpt", 300)>>)
        \cup {<< >>}

ItemSamples == [kind : {"items"}, items : ItemLists, limit : {300}]

PureCfgs ==
    {c \in StreamCfgs :
        /\ c.variant = "go"
        /\ c.args = [plan |-> "", limitSet |-> FALSE, limit |-> << >>, flags |-> {}]}

InitPure ==
    /\ InitOf(PureCfgs, {0})
    /\ sample \in BarSamples \cup ItemSamples
    /\ shown = NoShown

processVars ==
    <<cfgVars, pc, plan, limit, username, stdout, stderr, exitCode, calls, streamVars>>

\* a Map as the function from its keys to their values
MapOf(entries) ==
    [m \in {entries[i].model : i \in DOMAIN entries} |->
        entries[CHOOSE i \in DOMAIN entries : entries[i].model = m].count]

\* calculateTotalUsage with modelCounts (Go) or aggregateByModel (TypeScript)
TotalsOf(v, items) ==
    [total |-> calculateTotalUsage(items),
     models |-> IF v = "go" THEN modelCounts(items) ELSE MapOf(aggregateByModel(items))]

Totals ==
    /\ sample.kind = "items"
    /\ shown = NoShown
    /\ \E v \in {"go", "ts"} :
          shown' = [fn |-> "totals", variant |-> v,
                    total |-> TotalsOf(v, sample.items).total,
                    models |-> TotalsOf(v, sample.items).models]
    /\ UNCHANGED <<processVars, sample>>

\* the rows under "Per-model usage:"
Rows ==
    /\ sample.kind = "items"
    /\ shown = NoShown
    /\ \/ \E order \in RangeOrders(DOMAIN modelCounts(sample.items)) :
             shown' = [fn |-> "rows", variant |-> "go",
                       rows |-> printBoxRows(sample.items, sample.limit, order)]
       \/ shown' = [fn |-> "rows", variant |-> "ts",
                    rows |-> TS_rows(sample.items, sample.limit)]
    /\ UNCHANGED <<processVars, sample>>

\* the bar and the percentage next to it: drawBar in printBox (no colour is
\* written), drawBar in the TypeScript panel, the element of runI3BarMode
BarOf(v, used, total, width) ==
    IF v = "go"
    THEN [filled |-> drawBar(used, total, width).filled,
          empty |-> drawBar(used, total, width).empty,
          color |-> "none",
          percentage |-> Fmt1(PercentTenths(used, total)) \o "%"]
    ELSE IF v = "ts"
    THEN [filled |-> TS_drawBar(used, total, width).filled,
          empty |-> TS_drawBar(used, total, width).empty,
          color |-> TS_drawBar(used, total, width).color,
          percentage |-> formatPercentage(Percentage(used, total))]
    ELSE [filled |-> BarFilled(used, total),
          empty |-> BarCells - BarFilled(used, total),
          color |-> UsageElement(used, total)["color"],
          percentage |-> Fmt1(PercentTenths(used, total)) \o "%"]

Bars ==
    /\ sample.kind = "bar"
    /\ shown = NoShown
    /\ \E v \in {"go", "ts", "i3bar"} :
          /\ v = "i3bar" => sample.width = BarCells
          /\ shown' = [fn |-> "bar", variant |-> v] @@
                      BarOf(v, F64(sample.used), sample.total, sample.width)
    /\ UNCHANGED <<processVars, sample>>

NextPure ==
    \/ Totals
    \/ Rows
    \/ Bars

SpecPure == InitPure /\ [][NextPure]_vars

(***************************************************************************)
(* Properties of the plan and limit resolution (checked under SpecCfg).    *)
(***************************************************************************)
\* main has resolved plan and limit (getPlan never returns "")
Resolved == plan # ""

NoEarlyFlag == "help" \notin args.flags /\ "version" \notin args.flags

\* what each text of the model means as a limit on the command line, 0 when
\* none is given: "5a" is read as 5 by parseInt (the flag package refuses it)
CliOverride ==
    IF ~args.limitSet THEN 0
    ELSE CASE args.limit = <<"5", "0", "0">> -> 500
           [] args.limit = <<"-", "5">> -> 0 - 5
           [] args.limit = <<"5", "a">> /\ variant = "ts" -> 5
           [] OTHER -> 0

\* what each text of the model means as GH_COPILOT_LIMIT: "2x" is read as 2 by
\* parseInt and is no number for strconv.Atoi
EnvOverride ==
    CASE env.limit = <<"2", "0", "0">> -> 200
      [] env.limit = <<"2", "x">> /\ variant = "ts" -> 2
      [] OTHER -> 0

PlanTable == IF variant = "go" THEN plans ELSE PLANS

\* C7: the limit is the positive command-line override; else the positive,
\* parseable environment override; else the plan table's value for the plan;
\* else 1500 (500/200/pro gives 500, 200/pro gives 200, pro gives 300, nothing
\* gives 1500).
C7_LimitPrecedence ==
    Resolved =>
        /\ limit = IF CliOverride > 0 THEN CliOverride
                   ELSE IF EnvOverride > 0 THEN EnvOverride
                   ELSE IF plan \in DOMAIN PlanTable THEN PlanTable[plan]
                   ELSE 1500
        /\ (args.limit = <<"5", "0", "0">> /\ env.limit = <<"2", "0", "0">> /\ args.plan = "pro")
              => limit = 500
        /\ (~args.limitSet /\ env.limit = <<"2", "0", "0">> /\ args.plan = "pro")
              => limit = 200
        /\ (~args.limitSet /\ env.limit = << >> /\ args.plan = "pro") => limit = 300
        /\ (~args.limitSet /\ env.limit = << >> /\ args.plan = "" /\ env.plan = "")
              => limit = 1500

\* C8: an unknown plan name given on the command line ends the process with a
\* message on standard error and a non-zero status, before any call of gh and
\* with nothing on standard output.
C8_UnknownCliPlanRejected ==
    (/\ pc # "start"
     /\ NoEarlyFlag
     /\ args.plan # ""
     /\ toLowerCase(args.plan) \notin DOMAIN plans)
        => /\ exitCode \notin {Running, 0}
           /\ stderr # << >>
           /\ stdout = << >>
           /\ calls = [user |-> 0, usage |-> 0]

\* C9: a limit of zero or less given on the command line ends the process
\* with a message on standard error and a non-zero status; no other limit
\* takes its place.
C9_NonPositiveCliLimitRejected ==
    (/\ pc # "start"
     /\ NoEarlyFlag
     /\ args.limitSet
     /\ args.limit \in {<<"0">>, <<"-", "5">>})
        => /\ exitCode \notin {Running, 0}
           /\ stderr # << >>
           /\ ~Resolved

\* C10: once resolved, and so whenever a percentage is computed from it, the
\* limit is greater than 0, whatever the limits and plans given.
C10_LimitPositive ==
    /\ Resolved => limit > 0
    /\ calls.usage > 0 => limit > 0

(***************************************************************************)
(* Properties of the i3bar mode (checked under Spec).                      *)
(***************************************************************************)
\* runI3BarMode has been entered
InI3Bar == variant = "go" /\ "i3bar" \in args.flags /\ Resolved

Preamble == <<HeaderLine, OpenLine>>

\* the j-th content line read, as i3status wrote it
InLine(j) == i3status[frames[j].src]

\* a line without its surrounding white space and without one leading ','
Content(l) ==
    LET t == TrimSpace(l)
    IN  IF HasCommaPrefix(t) THEN Tail(t) ELSE t

\* the line written for the j-th content line follows the preamble
Emitted(j) == j + Len(Preamble) <= Len(stdout)
OutLine(j) == stdout[j + Len(Preamble)]

\* the run ended in fetchUsage's os.Exit(1)
FetchFailed ==
    /\ pc = "exited"
    /\ exitCode = 1
    /\ stderr # << >>
    /\ stderr[Len(stderr)] \in {"Error fetching usage:", "Error parsing response:"}

IsUsageElement(e) ==
    \E o \in FetchOutcomes :
        o.ok /\ e = Presented[o.items, limit].element

Named(items, n) ==
    {k \in 1..Len(items) :
        items[k] # NilItem /\ "name" \in DOMAIN items[k] /\ items[k]["name"] = n}

\* C1: every frame written holds the usage element first and then the
\* elements of its input frame, unchanged and in their order; it holds one
\* element named copilot more than the input frame.
C1_UsageElementFirst ==
    InI3Bar =>
        \A j \in 1..Len(frames) :
            LET in  == Unmarshal(Content(InLine(j)))
                out == Unmarshal(Content(OutLine(j)))
            IN  (Emitted(j) /\ in.ok) =>
                    /\ out.ok
                    /\ Len(out.items) = Len(in.items) + 1
                    /\ IsUsageElement(out.items[1])
                    /\ \A k \in 1..Len(in.items) : out.items[k + 1] = in.items[k]
                    /\ Cardinality(Named(out.items, "copilot"))
                          = Cardinality(Named(in.items, "copilot")) + 1

\* a frame of two elements, read as a continuation line, has been written
C1_Witness ==
    /\ InI3Bar
    /\ \E j \in 1..Len(frames) :
          /\ Emitted(j)
          /\ j > 1
          /\ Unmarshal(Content(InLine(j))).ok
          /\ Len(Unmarshal(Content(InLine(j))).items) = 2
          /\ Len(Unmarshal(Content(OutLine(j))).items) = 3

\* the fetch whose result the j-th content line found cached, 0 if none
FetchBefore(j) ==
    IF \E i \in 1..(j - 1) : frames[i].fetch
    THEN CHOOSE i \in 1..(j - 1) :
            frames[i].fetch /\ \A h \in (i + 1)..(j - 1) : ~frames[h].fetch
    ELSE 0

Fetches(i, j) == Cardinality({h \in i..j : frames[h].fetch})

\* C2: two content lines less than 60 s apart make one fetch between them,
\* not two (exactly one when the first of them fetches, as the first line of a
\* run does); a line arriving more than 60 s after the last fetch makes a new
\* fetch and one arriving within 60 s of it makes none, so the number of
\* fetches does not grow with the number of lines within an interval.
C2_RefreshCadence ==
    InI3Bar =>
        /\ \A i, j \in 1..Len(frames) :
              (i < j /\ frames[j].at - frames[i].at < 60) =>
                  /\ Fetches(i, j) <= 1
                  /\ frames[i].fetch => Fetches(i, j) = 1
        /\ \A j \in 1..Len(frames) :
              LET i == FetchBefore(j)
              IN  frames[j].fetch = (i = 0 \/ frames[j].at - frames[i].done > 60)
        /\ calls.usage = Fetches(1, Len(frames))

\* three content lines: a fetch, a line 30 s later served from the cache, and
\* a line after the interval that fetched again
C2_Witness ==
    /\ InI3Bar
    /\ Len(frames) = 3
    /\ frames[1].fetch /\ ~frames[2].fetch /\ frames[3].fetch
    /\ frames[2].at - frames[1].at < 60
    /\ Emitted(3)

\* C3: a fetch that fails while a cached element exists does not end the
\* process: the run never ends in fetchUsage's exit with cachedItem set.
C3_StaleCacheOnFetchFailure ==
    (InI3Bar /\ FetchFailed) => cachedItem = NilItem

WellFramedInput ==
    \A j \in 1..Len(frames) : HasCommaPrefix(TrimSpace(InLine(j))) = (j > 1)

\* what follows the separator of the j-th written line
OutContent(j) == IF j > 1 THEN Tail(OutLine(j)) ELSE OutLine(j)

Unseparated(l) == IF HasCommaPrefix(l) THEN Tail(l) ELSE l

\* C5: a content line that is no array of elements never ends the
\* process and is written as one line, the same as the input line but for the
\* leading separator.
C5_UnparseablePassedThrough ==
    InI3Bar =>
        /\ Len(stdout) = Len(Preamble) + Len(frames)
        /\ \A j \in 1..Len(frames) :
              ~Unmarshal(Content(InLine(j))).ok =>
                  Unseparated(OutLine(j)) = Unseparated(InLine(j))

\* what the loop does with such a line: it writes the line without its
\* surrounding white space, the separator put back, unless the usage fetch made
\* for that line failed: then the process has exited with status 1 and nothing
\* was written for the line.
UnparseableTrimmedOrFatal ==
    InI3Bar =>
        /\ Len(stdout) = Len(Preamble) + Len(frames) - (IF FetchFailed THEN 1 ELSE 0)
        /\ FetchFailed => (frames # << >> /\ frames[Len(frames)].fetch)
        /\ (pc = "exited" /\ exitCode # 0) => (FetchFailed \/ frames = << >>)
        /\ \A j \in 1..Len(frames) :
              (Emitted(j) /\ ~Unmarshal(Content(InLine(j))).ok) =>
                  OutContent(j) = Content(InLine(j))

\* C6: in i3bar mode the version header and then the opening bracket are the
\* first two lines written, before getUsername and before anything is read;
\* every later line written belongs to a content line, and no line read that
\* is the header or the bracket is among the content lines.
C6_PreambleOnce ==
    InI3Bar =>
        /\ Len(stdout) >= 2
        /\ stdout[1] = HeaderLine
        /\ stdout[2] = OpenLine
        /\ pc \in {"getUsername", "launch"} => (stdout = Preamble /\ i3status = << >>)
        /\ Len(stdout) <= Len(Preamble) + Len(frames)
        /\ \A j \in 1..Len(frames) :
              TrimSpace(InLine(j)) \notin {HeaderLine, OpenLine}
        /\ \A n \in 1..Len(i3status) :
              TrimSpace(i3status[n]) \in {HeaderLine, OpenLine}
                  => \A j \in 1..Len(frames) : frames[j].src # n

\* i3status echoed the header and the bracket, then wrote a frame: three lines
\* are on standard output
C6_Witness ==
    /\ InI3Bar
    /\ Len(i3status) = 3
    /\ i3status[1] = HeaderLine
    /\ TrimSpace(i3status[2]) = OpenLine
    /\ Len(frames) = 1
    /\ Len(stdout) = 3

\* the messages fetchUsage writes before it exits
FetchErrors == {o.err : o \in {r \in FetchOutcomes : ~r.ok}}

\* a step in which gh is asked for the usage while nothing is cached
FetchWithoutCache == calls'.usage = calls.usage + 1 /\ cachedItem = NilItem

\* such a step ends the process: one message more on standard error, status 1,
\* standard output and the cache as they were
FatalFetch ==
    /\ pc' = "exited"
    /\ exitCode' = 1
    /\ Len(stderr') = Len(stderr) + 1
    /\ SubSeq(stderr', 1, Len(stderr)) = stderr
    /\ stderr'[Len(stderr')] \in FetchErrors
    /\ stdout' = stdout
    /\ cachedItem' = cachedItem

\* such a step got the usage: one line more on standard output, nothing on
\* standard error
FetchedAndWritten ==
    /\ stderr' = stderr
    /\ Len(stdout') = Len(stdout) + 1
    /\ exitCode' \in {Running, 0}
    /\ InI3Bar => cachedItem' # NilItem

\* C15: a usage fetch made with nothing cached either succeeds or is fatal:
\* the failure is reported on standard error, the process exits with status 1
\* in the same step (gh is run once, not again: no step follows an exit), and
\* nothing is written to standard output for the line that asked for the
\* fetch.
C15_FetchFailureFatal ==
    [][/\ pc # "exited"
       /\ calls'.usage \in {calls.usage, calls.usage + 1}
       /\ FetchWithoutCache => (FatalFetch \/ FetchedAndWritten)
       /\ (pc' = "exited" /\ exitCode' = 1 /\ calls'.usage # calls.usage) => FatalFetch]_vars

\* the first content line of an i3bar run asked for the usage, gh failed: the
\* process is gone with status 1 and only the preamble was written
C15_Witness ==
    /\ InI3Bar
    /\ FetchFailed
    /\ cachedItem = NilItem
    /\ Len(frames) = 1
    /\ frames[1].fetch
    /\ calls.usage = 1
    /\ stdout = Preamble

\* the start of i3status failed and was reported
LaunchFailed ==
    /\ stderr # << >>
    /\ stderr[Len(stderr)] = "Error starting i3status:"

\* C16: when i3status cannot be started, the failure is reported on standard
\* error and the process ends with a status other than 0; it has read no line,
\* asked for no usage and written nothing after the preamble.  The loop is
\* entered only by a start that worked.
C16_LaunchFailureFatal ==
    /\ [](LaunchFailed =>
            /\ InI3Bar
            /\ pc = "exited"
            /\ exitCode \notin {Running, 0}
            /\ calls.usage = 0
            /\ i3status = << >>
            /\ frames = << >>
            /\ cachedItem = NilItem
            /\ stdout = Preamble)
    /\ [][pc = "launch" =>
            \/ pc' = "stream" /\ stderr' = stderr /\ exitCode' = Running
            \/ LaunchFailed' /\ Len(stderr') = Len(stderr) + 1
                  /\ pc' = "exited" /\ exitCode' \notin {Running, 0}]_vars
    /\ [][pc' = "stream" => pc \in {"launch", "stream"}]_vars

\* i3status could not be started: status 1, the preamble alone on standard
\* output, no usage asked for
C16_Witness ==
    /\ InI3Bar
    /\ LaunchFailed
    /\ pc = "exited"
    /\ exitCode = 1
    /\ calls = [user |-> 1, usage |-> 0]
    /\ stdout = Preamble

\* a line that is blank, the version header or the opening bracket, white
\* space around it aside
BlankOrFraming(l) == TrimSpace(l) \in {<< >>, HeaderLine, OpenLine}

\* the step reads a line from i3status
ReadsLine == Len(i3status') = Len(i3status) + 1

\* C18: a blank line, an echo of the version header or an opening bracket read
\* from i3status, at any place of the stream, leaves no trace: nothing is
\* written, gh is not run (though a refresh may be due), the cache and the
\* time of the last fetch stay, and the line is no content line.
C18_FramingDiscarded ==
    [][(ReadsLine /\ BlankOrFraming(i3status'[Len(i3status')])) =>
            UNCHANGED <<stdout, stderr, calls, cachedItem, lastFetch, first,
                        frames, pc, exitCode>>]_vars

\* after a frame was written, a framing line was read at a time when the
\* cached element was older than the refresh interval: still one fetch, one
\* frame
C18_Witness ==
    /\ InI3Bar
    /\ Len(frames) = 1
    /\ Emitted(1)
    /\ Len(i3status) > frames[1].src
    /\ BlankOrFraming(i3status[Len(i3status)])
    /\ clock - lastFetch > RefreshSeconds
    /\ calls.usage = 1
    /\ Len(stdout) = Len(Preamble) + 1

\* how many ',' a line begins with
RECURSIVE LeadingCommas(_)
LeadingCommas(l) ==
    IF l # << >> /\ Head(l) = COMMA THEN 1 + LeadingCommas(Tail(l)) ELSE 0

\* the separators standard output needs at the place of the j-th content line
SeparatorsAt(j) == IF j = 1 THEN 0 ELSE 1

\* C19: the first line written for a content line begins with no ',' and every
\* later one with exactly one ',', whatever the input lines begin with, be the
\* line a frame with the usage element or a line written as it came.
C19_OneSeparatorByPosition ==
    InI3Bar =>
        \A j \in 1..Len(frames) :
            Emitted(j) => LeadingCommas(OutLine(j)) = SeparatorsAt(j)

\* C19, amended: the program writes no separator before the first content
\* line it writes and exactly one ',' before every later one, in front of the
\* frame with the usage element or of the content written as it came; the
\* written line begins with more ',' only by those the content itself begins
\* with after its own separator is taken off, which no frame does.
C19_SeparatorAddedByPosition ==
    InI3Bar =>
        \A j \in 1..Len(frames) :
            LET in == Content(InLine(j))
                parsed == Unmarshal(in).ok
            IN  Emitted(j) =>
                    /\ LeadingCommas(OutLine(j)) =
                          SeparatorsAt(j) + (IF parsed THEN 0 ELSE LeadingCommas(in))
                    /\ parsed => Unmarshal(SubSeq(OutLine(j), SeparatorsAt(j) + 1,
                                                  Len(OutLine(j)))).ok
                    /\ ~parsed => SubSeq(OutLine(j), SeparatorsAt(j) + 1,
                                         Len(OutLine(j))) = in
                    /\ LeadingCommas(in) = 0 =>
                          LeadingCommas(OutLine(j)) = SeparatorsAt(j)

\* a frame that came with ',' was written first, without one; a line of two
\* ',' and text that is no JSON was written second, with both
C19_Witness ==
    /\ InI3Bar
    /\ Len(frames) >= 2
    /\ Emitted(2)
    /\ Unmarshal(Content(InLine(1))).ok
    /\ LeadingCommas(TrimSpace(InLine(1))) = 1
    /\ LeadingCommas(OutLine(1)) = 0
    /\ ~Unmarshal(Content(InLine(2))).ok
    /\ LeadingCommas(TrimSpace(InLine(2))) = 2
    /\ LeadingCommas(OutLine(2)) = 2

\* the step asked gh for the usage and got it
FetchSucceeded ==
    /\ calls'.usage = calls.usage + 1
    /\ pc' = "stream"
    /\ stderr' = stderr
    /\ cachedItem' # NilItem

\* C20: a line is written for a content line only after a usage fetch that
\* succeeded; when it is written the cached element is there, and the fetch it
\* comes from was over no more than 60 s before the line arrived.  lastFetch
\* changes only in a step with a successful fetch, to the time that fetch was
\* over, and never goes back.
C20_FreshCacheAtEmission ==
    /\ [](InI3Bar =>
            /\ Len(stdout) > Len(Preamble) =>
                  (cachedItem # NilItem /\ lastFetch # ZeroTime /\ calls.usage >= 1)
            /\ (cachedItem = NilItem) = (lastFetch = ZeroTime)
            /\ lastFetch <= clock
            /\ \A j \in 1..Len(frames) :
                  Emitted(j) =>
                      /\ \E i \in 1..j : frames[i].fetch /\ Emitted(i)
                      /\ frames[j].done # ZeroTime
                      /\ frames[j].at - frames[j].done <= RefreshSeconds
                      /\ ~frames[j].fetch =>
                            /\ FetchBefore(j) # 0
                            /\ frames[j].done = frames[FetchBefore(j)].done)
    /\ [][/\ lastFetch' >= lastFetch
          /\ lastFetch' # lastFetch => (FetchSucceeded /\ lastFetch' = clock')
          /\ (InI3Bar /\ Len(stdout') > Len(stdout)) =>
                (cachedItem' # NilItem /\ (FetchSucceeded \/ UNCHANGED <<calls, cachedItem, lastFetch>>))]_vars

\* three lines 30 s apart: the first fetched, the third was written from the
\* cache exactly 60 s after that fetch
C20_Witness ==
    /\ InI3Bar
    /\ Len(frames) = 3
    /\ Emitted(3)
    /\ frames[1].fetch /\ ~frames[2].fetch /\ ~frames[3].fetch
    /\ frames[3].at - frames[3].done = RefreshSeconds
    /\ calls.usage = 1
    /\ lastFetch = frames[1].done

\* i3status has closed its output and every line it wrote has been dealt with
StreamClosed == InI3Bar /\ pc = "stream" /\ remaining = 0

\* C17: once the output of i3status is closed, the loop ends, the process
\* waits for i3status and ends with status 0; from the last line dealt with to
\* the exit nothing is written and gh is not run.
C17_TerminatesAfterEOF ==
    /\ StreamClosed ~> (pc = "exited" /\ exitCode = 0)
    /\ [][StreamClosed =>
            /\ pc' = "exited"
            /\ exitCode' = 0
            /\ UNCHANGED <<stdout, stderr, calls, i3status, frames>>]_vars

\* a run that wrote a frame for its last line and ended with status 0 at the
\* end of the stream
C17_Witness ==
    /\ InI3Bar
    /\ pc = "exited"
    /\ exitCode = 0
    /\ remaining = 0
    /\ Len(frames) = MaxLiveLines
    /\ Emitted(Len(frames))
    /\ Len(stdout) = Len(Preamble) + Len(frames)

\* the program was started with -i3bar
I3BarAsked == variant = "go" /\ "i3bar" \in args.flags

\* getUsername's os.Exit(1) ended the run
LookupFailed ==
    /\ stderr # << >>
    /\ stderr[Len(stderr)] = "Error: Could not get username"

\* C21: in i3bar mode gh is asked for the login exactly once in a run, when
\* the preamble is written and before i3status is started; every usage fetch
\* is made with the login it returned.  When the lookup fails the process
\* exits with status 1: the preamble is on standard output, i3status was not
\* started, nothing was read and no usage was asked for.
C21_UsernameLookedUpOnce ==
    /\ [](I3BarAsked =>
            /\ calls.user <= 1
            /\ pc \in {"launch", "stream"} => (calls.user = 1 /\ username # "")
            /\ calls.user = 0 => (i3status = << >> /\ calls.usage = 0 /\ username = "")
            /\ calls.user = 1 => (Len(stdout) >= 2 /\ SubSeq(stdout, 1, 2) = Preamble)
            /\ \A j \in 1..Len(frames) :
                  frames[j].fetch => (frames[j].user = username /\ username # "")
            /\ LookupFailed =>
                  /\ pc = "exited"
                  /\ exitCode = 1
                  /\ calls = [user |-> 1, usage |-> 0]
                  /\ stdout = Preamble
                  /\ i3status = << >>
                  /\ frames = << >>)
    /\ [][I3BarAsked =>
            /\ calls'.user # calls.user =>
                  /\ calls'.user = 1
                  /\ stdout = Preamble /\ stdout' = stdout
                  /\ \/ pc' = "launch" /\ username' # "" /\ stderr' = stderr
                     \/ pc' = "exited" /\ LookupFailed' /\ username' = ""
            /\ username' # username => calls'.user # calls.user
            /\ pc' = "launch" => pc = "getUsername"
            /\ pc' = "stream" => pc \in {"launch", "stream"}]_vars

\* a run of three content lines of which the first and the third fetched the
\* usage: one lookup, two fetches, both with the login it returned
C21_Witness ==
    /\ I3BarAsked
    /\ calls = [user |-> 1, usage |-> 2]
    /\ Len(frames) = 3
    /\ frames[1].fetch /\ ~frames[2].fetch /\ frames[3].fetch
    /\ Emitted(3)
    /\ frames[1].user = username /\ frames[3].user = username
    /\ username # ""

(***************************************************************************)
(* Properties of the presenters' functions (checked under SpecPure).       *)
(***************************************************************************)
\* the model names of the samples in ascending order of their characters
LabelOrder == <<"", "Unknown", "claude", "gpt", "idle", "o3">>
LabelRank(m) == CHOOSE i \in DOMAIN LabelOrder : LabelOrder[i] = m

\* C11: the rows of the per-model table come by descending summed quantity,
\* rows of equal quantity by ascending model name, whatever the order of the
\* usage items.
C11_BreakdownSorted ==
    shown.fn = "rows" =>
        \A i, j \in DOMAIN shown.rows :
            i < j =>
                \/ F64Less(shown.rows[j].count, shown.rows[i].count)
                \/ /\ shown.rows[i].count = shown.rows[j].count
                   /\ LabelRank(shown.rows[i].model) < LabelRank(shown.rows[j].model)

\* what the TypeScript panel keeps of it: no row is followed by a larger one
TS_RowsDescending ==
    (shown.fn = "rows" /\ shown.variant = "ts") =>
        \A i, j \in DOMAIN shown.rows :
            i < j => ~F64Less(shown.rows[i].count, shown.rows[j].count)

\* the colour a colour code stands for
ColorName(code) ==
    CASE code \in {"\\x1b[32m", "#00FF00"} -> "green"
      [] code \in {"\\x1b[33m", "#FFFF00"} -> "yellow"
      [] code \in {"\\x1b[31m", "#FF0000"} -> "red"
      [] OTHER -> "none"

\* the colour the policy gives to used requests out of total
ColorPolicy(used, total) ==
    IF 100 * used < 75 * total THEN "green"
    ELSE IF 100 * used < 90 * total THEN "yellow"
    ELSE "red"

\* C12: the indicator is green below 75 percent of the limit, yellow from 75
\* to below 90, red from 90 on, over 100 too; so is the element of the status
\* bar.  (The box of the Go program is written without any colour.)
C12_ColorByThreshold ==
    (shown.fn = "bar" /\ shown.variant \in {"ts", "i3bar"}) =>
        ColorName(shown.color) = ColorPolicy(sample.used, sample.total)

\* the TypeScript bar follows the thresholds
TS_ColorByThreshold ==
    (shown.fn = "bar" /\ shown.variant = "ts") =>
        ColorName(shown.color) = ColorPolicy(sample.used, sample.total)

\* the width a bar was asked for
AskedWidth == IF shown.variant = "i3bar" THEN BarCells ELSE sample.width

\* floor(min(used, limit) * width / limit)
FilledLength(used, total, width) ==
    ((IF used < total THEN used ELSE total) * width) \div total

\* C13: the bar has floor(min(used, limit) * width / limit) full cells, so
\* between 0 and width of them, and width cells in all also over the limit;
\* the percentage is not cut off (2000 of 1500 at width 20: 20 cells, 133.3).
C13_BarFilledLength ==
    shown.fn = "bar" =>
        /\ shown.filled = FilledLength(sample.used, sample.total, AskedWidth)
        /\ 0 <= shown.filled /\ shown.filled <= AskedWidth
        /\ shown.filled + shown.empty = AskedWidth
        /\ (sample.used = 2000 /\ sample.total = 1500 /\ AskedWidth = 20) =>
              (shown.filled = 20 /\ shown.percentage = "133.3%")

\* what every bar keeps of it: its cells, and the percentage over the limit
BarWithinWidth ==
    shown.fn = "bar" =>
        /\ 0 <= shown.filled /\ shown.filled <= AskedWidth
        /\ shown.filled + shown.empty = AskedWidth
        /\ FilledLength(sample.used, sample.total, AskedWidth) - shown.filled \in {0, 1}
        /\ (sample.used = 2000 /\ sample.total = 1500) => shown.percentage = "133.3%"

\* the TypeScript bar has the length of C13
TS_BarFilledLength ==
    (shown.fn = "bar" /\ shown.variant = "ts") =>
        shown.filled = FilledLength(sample.used, sample.total, AskedWidth)

\* the sum of quantities as a number of any size: nothing is rounded
RECURSIVE ExactSum(_)
ExactSum(items) ==
    IF items = << >> THEN F64Zero
    ELSE LET x == ExactSum(Tail(items))
             y == Head(items).GrossQuantity
             e == IF x.exp < y.exp THEN x.exp ELSE y.exp
         IN  [m |-> AddLimbs(ShiftLeft(x.m, x.exp - e), ShiftLeft(y.m, y.exp - e)),
              exp |-> e]

\* two such numbers are the same number
SameNumber(x, y) ==
    LET e == IF x.exp < y.exp THEN x.exp ELSE y.exp
    IN  ShiftLeft(x.m, x.exp - e) = ShiftLeft(y.m, y.exp - e)

ModelsIn(items) == {items[i].Model : i \in DOMAIN items}

WholeTotalsAreSums ==
    (shown.fn = "totals" /\ shown.variant = "go"
        /\ \A i \in DOMAIN sample.items :
              SameNumber(sample.items[i].GrossQuantity,
                         F64(F64Trunc(sample.items[i].GrossQuantity)))) =>
        /\ SameNumber(shown.total, ExactSum(sample.items))
        /\ \A m \in DOMAIN shown.models :
              SameNumber(shown.models[m], ExactSum(ItemsOf(sample.items, m)))
        /\ \A p \in Perms(sample.items) :
              TotalsOf(shown.variant, p) = [total |-> shown.total, models |-> shown.models]

====
